---- MODULE Spec2Model ----
\* A model of the Edgeware tipping-bot contract (src/lib.rs): the two binding
\* maps, the balance ledger, the owner, and the balances the environment holds
\* for the contract and for every account.
EXTENDS Integers, Sequences, FiniteSets, TLC

\* ---------------------------------------------------------------- bounds
\* Width of the model's Balance type (u128 in the source).
BalanceBits == 4
\* Total of the free balances the accounts hold when the contract is deployed.
TotalSupply == 3
\* Endowment of the contract account at deployment (create_contract in the tests).
Endowment == 1
\* Largest amount a caller passes to tip / tip_from.
MaxAmount == 2

\* ---------------------------------------------------------------- types
AccountId == {"alice", "bob", "eve"}
TelegramId == {42, 142, 4242}

RECURSIVE Pow2(_)
Pow2(n) == IF n = 0 THEN 1 ELSE 2 * Pow2(n - 1)

Balance == 0 .. (Pow2(BalanceBits) - 1)

\* Option<T>
None == <<>>
Some(v) == <<v>>

\* ---------------------------------------------------------------- state
\* The contract's storage (owner, address_tg, tg_address, balances), the free
\* balances the environment holds for the contract and for every account, and
\* the message in progress (`pending`), used where a message is followed write
\* by write.
VARIABLES owner, address_tg, tg_address, balances,
          contract_balance, account_balance, pending

vars == <<owner, address_tg, tg_address, balances,
          contract_balance, account_balance, pending>>

\* No message is in progress.
NoCall == [pc |-> "idle"]

\* ---------------------------------------------------------------- HashMap
contains_key(m, k) == k \in DOMAIN m
get(m, k) == IF k \in DOMAIN m THEN Some(m[k]) ELSE None
insert(m, k, v) == [x \in (DOMAIN m) \cup {k} |-> IF x = k THEN v ELSE m[x]]
take(m, k) == [x \in (DOMAIN m) \ {k} |-> m[x]]
EmptyMap == [x \in {} |-> 0]

\* ---------------------------------------------------------------- integers
\* `*v += balance` and `*value -= amount` on the fixed-width Balance type.
add_assign(v, b) == (v + b) % Pow2(BalanceBits)

\* Mutant: the debit leaves the value as it was.
sub_assign_keep(v, b) == v

sub_assign(v, b) == (v - b) % Pow2(BalanceBits)

\* ---------------------------------------------------------------- results
\* The outcome of running a message on the contract state `self`: the state it
\* leaves, the value it returns, and whether it trapped.
Ok(self) == [self |-> self, res |-> "Ok", trap |-> FALSE]
Err(self, e) == [self |-> self, res |-> e, trap |-> FALSE]

\* Mutant: the Err is returned without a panic, so the call is not aborted.
return_err(out) == out

\* panic_on_err!: an Err result panics, which aborts the call.
panic_on_err(out) == IF out.res = "Ok" THEN out ELSE [out EXCEPT !.trap = TRUE]

\* ---------------------------------------------------------------- queries
telegram_id_of(self, account) == get(self.address_tg, account)
address_of(self, tg_id) == get(self.tg_address, tg_id)
balance_of(self, tg_id) ==
    IF address_of(self, tg_id) # None
    THEN LET address == address_of(self, tg_id)[1] IN
         IF get(self.balances, address) # None THEN self.balances[address] ELSE 0
    ELSE 0

\* ---------------------------------------------------------------- environment
\* self.env().transfer(to, v): moves v from the contract's balance to `to`.
\* The environment may refuse (env_ok = FALSE), and refuses what the contract
\* cannot pay. Every invocation is logged, refused or not.
env_transfer(self, to, v, env_ok) ==
    LET ok == env_ok /\ self.contract_balance >= v
        logged == [self EXCEPT !.transfers =
                       Append(@, [to |-> to, amount |-> v, ok |-> ok])]
    IN IF ok
       THEN Ok([logged EXCEPT !.contract_balance = @ - v,
                              !.account_balance[to] = @ + v])
       ELSE Err(logged, "BelowSubsistenceThreshold")

\* ---------------------------------------------------------------- bind
\* Mutant: the check looks at the caller's binding instead of the tg_id's.
caller_bounded(self, caller, tg_id) == contains_key(self.address_tg, caller)

\* Mutant: the check is gone, a taken tg_id can be bound again.
never_bounded(self, caller, tg_id) == FALSE

\* The anti-spoofing check at the head of bind.
already_bounded(self, caller, tg_id) == contains_key(self.tg_address, tg_id)

\* tg_address.insert(tg_id, caller), evicting the previous holder of tg_id.
add_binding(self, caller, tg_id) ==
    LET old_caller == get(self.tg_address, tg_id)
        s1 == [self EXCEPT !.tg_address = insert(@, tg_id, caller)]
    IN IF old_caller # None
       THEN [s1 EXCEPT !.address_tg = take(@, old_caller[1])]
       ELSE s1

\* Mutant: the caller's previous tg_id is not freed.
keep_old_tg_id(self, caller, tg_id) ==
    [self EXCEPT !.address_tg = insert(@, caller, tg_id)]

\* Mutant: the new tg_id is freed instead of the previous one.
free_new_tg_id(self, caller, tg_id) ==
    LET old_tg_id == get(self.address_tg, caller)
        s1 == [self EXCEPT !.address_tg = insert(@, caller, tg_id)]
    IN IF old_tg_id # None
       THEN [s1 EXCEPT !.tg_address = take(@, tg_id)]
       ELSE s1

\* address_tg.insert(caller, tg_id), freeing the caller's previous tg_id.
free_old_tg_id(self, caller, tg_id) ==
    LET old_tg_id == get(self.address_tg, caller)
        s1 == [self EXCEPT !.address_tg = insert(@, caller, tg_id)]
    IN IF old_tg_id # None
       THEN [s1 EXCEPT !.tg_address = take(@, old_tg_id[1])]
       ELSE s1

\* Mutant: the deposit overwrites the entry instead of adding to it.
credit_overwrite(self, caller, balance) ==
    IF balance > 0
    THEN [self EXCEPT !.balances = insert(@, caller, balance)]
    ELSE self

\* balances.entry(caller).and_modify(|v| *v += balance).or_insert(balance)
credit(self, caller, balance) ==
    IF balance > 0
    THEN IF contains_key(self.balances, caller)
         THEN [self EXCEPT !.balances[caller] = add_assign(@, balance)]
         ELSE [self EXCEPT !.balances = insert(@, caller, balance)]
    ELSE self

bind(self, caller, tg_id, transferred_balance) ==
    IF already_bounded(self, caller, tg_id)
    THEN panic_on_err(Err(self, "AlreadyBounded"))
    ELSE Ok(credit(free_old_tg_id(add_binding(self, caller, tg_id), caller, tg_id),
                   caller, transferred_balance))

\* ---------------------------------------------------------------- ensure_owner
\* Mutant: every caller passes.
ensure_anyone(self, caller) == Ok(self)

ensure_owner(self, caller) ==
    panic_on_err(IF caller = self.owner THEN Ok(self) ELSE Err(self, "NotAllowed"))

\* ---------------------------------------------------------------- unbind
\* Option::expect: a missing value panics.
expect(self, opt) == IF opt # None THEN Ok(self) ELSE [Err(self, "Panic") EXCEPT !.trap = TRUE]

\* Mutant: the refund is paid out of an entry that stays in the ledger.
refund_keep_entry(self, account, env_ok) ==
    IF get(self.balances, account) # None
    THEN panic_on_err(env_transfer(self, account, self.balances[account], env_ok))
    ELSE Ok(self)

\* balances.take(&account), then the refund of what was taken.
refund(self, account, env_ok) ==
    IF get(self.balances, account) # None
    THEN LET v == self.balances[account] IN
         panic_on_err(env_transfer([self EXCEPT !.balances = take(@, account)],
                                   account, v, env_ok))
    ELSE Ok(self)

\* Mutant: the tg_id's entry in tg_address is left behind.
unbind_account_keep_tg(self, account, env_ok) ==
    IF ~contains_key(self.address_tg, account)
    THEN panic_on_err(Err(self, "NotFound"))
    ELSE refund([self EXCEPT !.address_tg = take(@, account)], account, env_ok)

\* Mutant: unbinding an account that has no binding succeeds and does nothing.
unbind_account_lenient(self, account, env_ok) ==
    IF ~contains_key(self.address_tg, account)
    THEN Ok(self)
    ELSE LET tg_id == self.address_tg[account]
             s1 == [self EXCEPT !.address_tg = take(@, account)]
             s2 == [s1 EXCEPT !.tg_address = take(@, tg_id)]
         IN refund(s2, account, env_ok)

unbind_account(self, account, env_ok) ==
    IF ~contains_key(self.address_tg, account)
    THEN panic_on_err(Err(self, "NotFound"))
    ELSE LET tg_id == self.address_tg[account]
             s1 == [self EXCEPT !.address_tg = take(@, account)]
             e2 == expect(s1, get(s1.tg_address, tg_id))
             s2 == [s1 EXCEPT !.tg_address = take(@, tg_id)]
         IN IF e2.trap THEN e2 ELSE refund(s2, account, env_ok)

unbind(self, caller, env_ok) == unbind_account(self, caller, env_ok)

\* Mutant: the owner's own account is unbound instead of the given one.
force_unbind_caller(self, caller, account, env_ok) ==
    LET allowed == ensure_owner(self, caller) IN
    IF allowed.res # "Ok" THEN allowed ELSE unbind_account(self, caller, env_ok)

force_unbind(self, caller, account, env_ok) ==
    LET allowed == ensure_owner(self, caller) IN
    IF allowed.res # "Ok" THEN allowed ELSE unbind_account(self, account, env_ok)

\* ---------------------------------------------------------------- tip
\* Option::zip
zip(a, b) == IF a # None /\ b # None THEN Some(<<a[1], b[1]>>) ELSE None

\* Mutant: any non-empty balance passes.
sufficient_nonzero(value, amount) == value > 0

\* The guard of the debit: `Some(value) if *value >= amount`.
sufficient(value, amount) == value >= amount

\* Mutant: the amount is credited to the target's ledger entry instead of being
\* transferred to the target.
tip_account_credit(self, caller, target, amount, env_ok) ==
    LET balance == get(self.balances, caller) IN
    IF balance # None /\ sufficient(balance[1], amount)
    THEN Ok(credit([self EXCEPT !.balances[caller] = sub_assign(@, amount)],
                   target, amount))
    ELSE panic_on_err(Err(self, "InsufficientFunds"))

tip_account(self, caller, target, amount, env_ok) ==
    LET balance == get(self.balances, caller) IN
    IF balance # None /\ sufficient(balance[1], amount)
    THEN panic_on_err(env_transfer(
             [self EXCEPT !.balances[caller] = sub_assign(@, amount)],
             target, amount, env_ok))
    ELSE panic_on_err(Err(self, "InsufficientFunds"))

\* Mutant: the caller's own binding is not required.
tip_inputs_target(self, caller, tg_id) ==
    zip(Some(tg_id), address_of(self, tg_id))

tip_inputs(self, caller, tg_id) ==
    zip(telegram_id_of(self, caller), address_of(self, tg_id))

tip(self, caller, tg_id, amount, env_ok) ==
    LET inputs == tip_inputs(self, caller, tg_id) IN
    IF inputs # None
    THEN tip_account(self, caller, inputs[1][2], amount, env_ok)
    ELSE panic_on_err(Err(self, "NotFound"))

tip_from_inputs(self, from, to) ==
    zip(address_of(self, from), address_of(self, to))

tip_from(self, caller, from, to, amount, env_ok) ==
    LET allowed == ensure_owner(self, caller)
        inputs == tip_from_inputs(self, from, to)
    IN IF allowed.res # "Ok" THEN allowed
       ELSE IF inputs # None
            THEN tip_account(self, inputs[1][1], inputs[1][2], amount, env_ok)
            ELSE panic_on_err(Err(self, "NotFound"))

\* ---------------------------------------------------------------- calls
\* The current state, as the record the messages work on. `transfers` logs the
\* transfers a message invokes.
Self ==
    [owner |-> owner, address_tg |-> address_tg, tg_address |-> tg_address,
     balances |-> balances, contract_balance |-> contract_balance,
     account_balance |-> account_balance, transfers |-> <<>>]

\* A payable message: the environment moves the attached value from the caller
\* to the contract before the message runs.
Payable(self, caller, value) ==
    [self EXCEPT !.account_balance[caller] = @ - value,
                 !.contract_balance = @ + value]

\* What a call made in state `pre` leaves behind: the environment commits the
\* state the message ended in unless the message trapped, in which case every
\* change made during the call (the attached value included) is reverted.
\* `transfers` keeps the transfers the message invoked, committed or not.
Outcome(pre, out) ==
    [self |-> IF out.trap THEN pre ELSE [out.self EXCEPT !.transfers = <<>>],
     res |-> out.res, trap |-> out.trap, transfers |-> out.self.transfers]

\* The inputs of the messages.
Deposits(self, caller) == 0 .. self.account_balance[caller]
Amounts == 0 .. MaxAmount

CallBind(s, caller, tg_id, value) ==
    Outcome(s, bind(Payable(s, caller, value), caller, tg_id, value))
CallUnbind(s, caller, env_ok) == Outcome(s, unbind(s, caller, env_ok))
CallForceUnbind(s, caller, account, env_ok) ==
    Outcome(s, force_unbind(s, caller, account, env_ok))
CallTip(s, caller, tg_id, amount, env_ok) ==
    Outcome(s, tip(s, caller, tg_id, amount, env_ok))
CallTipFrom(s, caller, from, to, amount, env_ok) ==
    Outcome(s, tip_from(s, caller, from, to, amount, env_ok))

\* One call: the state moves to what the call leaves behind.
Execute(end) ==
    /\ owner' = end.self.owner
    /\ address_tg' = end.self.address_tg
    /\ tg_address' = end.self.tg_address
    /\ balances' = end.self.balances
    /\ contract_balance' = end.self.contract_balance
    /\ account_balance' = end.self.account_balance
    /\ pending' = pending

Bind ==
    \E caller \in AccountId, tg_id \in TelegramId :
    \E value \in Deposits(Self, caller) :
        Execute(CallBind(Self, caller, tg_id, value))

Unbind ==
    \E caller \in AccountId, env_ok \in BOOLEAN :
        Execute(CallUnbind(Self, caller, env_ok))

ForceUnbind ==
    \E caller \in AccountId, account \in AccountId, env_ok \in BOOLEAN :
        Execute(CallForceUnbind(Self, caller, account, env_ok))

Tip ==
    \E caller \in AccountId, tg_id \in TelegramId :
    \E amount \in Amounts, env_ok \in BOOLEAN :
        Execute(CallTip(Self, caller, tg_id, amount, env_ok))

TipFrom ==
    \E caller \in AccountId, from \in TelegramId, to \in TelegramId :
    \E amount \in Amounts, env_ok \in BOOLEAN :
        Execute(CallTipFrom(Self, caller, from, to, amount, env_ok))

\* Tipbot::new(): the deployer (alice, as in the tests) becomes the owner, the
\* maps are empty. The accounts share TotalSupply in any way.
Init ==
    /\ owner = "alice"
    /\ address_tg = EmptyMap
    /\ tg_address = EmptyMap
    /\ balances = EmptyMap
    /\ contract_balance = Endowment
    /\ account_balance \in
         {f \in [AccountId -> 0 .. TotalSupply] :
             f["alice"] + f["bob"] + f["eve"] = TotalSupply}
    /\ pending = NoCall

Next == Bind \/ Unbind \/ ForceUnbind \/ Tip \/ TipFrom

Spec == Init /\ [][Next]_vars

\* ---------------------------------------------------------------- write by write
\* bind, unbind and force_unbind followed one storage write at a time. A
\* message in progress keeps the state it started from (`pre`), to which the
\* environment returns if the message panics.

\* address_tg.insert(caller, tg_id)
insert_address_tg(self, caller, tg_id) ==
    [self EXCEPT !.address_tg = insert(@, caller, tg_id)]

\* tg_address.take(&old_tg_id)
take_old_tg_id(self, old_tg_id) ==
    [self EXCEPT !.tg_address = take(@, old_tg_id)]

\* address_tg.take(&account)
take_address_tg(self, account) ==
    [self EXCEPT !.address_tg = take(@, account)]

\* tg_address.take(&tg_id)
take_tg_address(self, tg_id) ==
    [self EXCEPT !.tg_address = take(@, tg_id)]

\* The storage and the balances become those of `self`.
Store(self) ==
    /\ owner' = self.owner
    /\ address_tg' = self.address_tg
    /\ tg_address' = self.tg_address
    /\ balances' = self.balances
    /\ contract_balance' = self.contract_balance
    /\ account_balance' = self.account_balance

\* bind is called: the attached value arrives, the AlreadyBounded check runs.
W_BindCall ==
    /\ pending.pc = "idle"
    /\ \E caller \in AccountId, tg_id \in TelegramId :
       \E value \in Deposits(Self, caller) :
           IF already_bounded(Self, caller, tg_id)
           THEN UNCHANGED vars
           ELSE /\ Store(Payable(Self, caller, value))
                /\ pending' = [pc |-> "insert_tg", caller |-> caller,
                               tg_id |-> tg_id, value |-> value, pre |-> Self]

\* lib.rs:146-149
W_BindInsertTg ==
    /\ pending.pc = "insert_tg"
    /\ Store(add_binding(Self, pending.caller, pending.tg_id))
    /\ pending' = [pending EXCEPT !.pc = "insert_address"]

\* lib.rs:151
W_BindInsertAddress ==
    /\ pending.pc = "insert_address"
    /\ Store(insert_address_tg(Self, pending.caller, pending.tg_id))
    /\ pending' = [pc |-> IF telegram_id_of(Self, pending.caller) # None
                          THEN "free_old" ELSE "credit",
                   caller |-> pending.caller, tg_id |-> pending.tg_id,
                   value |-> pending.value, pre |-> pending.pre,
                   old_tg_id |-> telegram_id_of(Self, pending.caller)]

\* lib.rs:156
W_BindFreeOld ==
    /\ pending.pc = "free_old"
    /\ Store(take_old_tg_id(Self, pending.old_tg_id[1]))
    /\ pending' = [pending EXCEPT !.pc = "credit"]

\* lib.rs:160-167
W_BindCredit ==
    /\ pending.pc = "credit"
    /\ Store(credit(Self, pending.caller, pending.value))
    /\ pending' = NoCall

\* unbind or force_unbind is called: ensure_owner (force_unbind) and the
\* NotFound check run.
W_UnbindCall ==
    /\ pending.pc = "idle"
    /\ \E caller \in AccountId, account \in AccountId :
           IF (caller # account /\ ensure_owner(Self, caller).res # "Ok")
              \/ ~contains_key(address_tg, account)
           THEN UNCHANGED vars
           ELSE /\ UNCHANGED <<owner, address_tg, tg_address, balances,
                               contract_balance, account_balance>>
                /\ pending' = [pc |-> "take_address", account |-> account,
                               pre |-> Self]

\* lib.rs:257-260
W_UnbindTakeAddress ==
    /\ pending.pc = "take_address"
    /\ Store(take_address_tg(Self, pending.account))
    /\ pending' = [pc |-> "take_tg", account |-> pending.account,
                   pre |-> pending.pre, tg_id |-> address_tg[pending.account]]

\* lib.rs:261-264
W_UnbindTakeTg ==
    /\ pending.pc = "take_tg"
    /\ IF expect(Self, get(tg_address, pending.tg_id)).trap
       THEN Store(pending.pre) /\ pending' = NoCall
       ELSE /\ Store(take_tg_address(Self, pending.tg_id))
            /\ pending' = [pending EXCEPT !.pc = "refund"]

\* lib.rs:265-271
W_UnbindRefund ==
    /\ pending.pc = "refund"
    /\ \E env_ok \in BOOLEAN :
           Store(Outcome(pending.pre, refund(Self, pending.account, env_ok)).self)
    /\ pending' = NoCall

\* tip and tip_from, which write once, as whole messages.
W_Tip == pending.pc = "idle" /\ Tip
W_TipFrom == pending.pc = "idle" /\ TipFrom

NextWrites ==
    \/ W_BindCall \/ W_BindInsertTg \/ W_BindInsertAddress \/ W_BindFreeOld
    \/ W_BindCredit
    \/ W_UnbindCall \/ W_UnbindTakeAddress \/ W_UnbindTakeTg \/ W_UnbindRefund
    \/ W_Tip \/ W_TipFrom

SpecWrites == Init /\ [][NextWrites]_vars

\* ---------------------------------------------------------------- unbacked deposits
\* The off-chain environment of the repository's tests: set_sender(sender,
\* endowment) attaches any Balance to the next call, whatever the sender holds,
\* and moves nothing. Deposits are then not limited by the money in existence,
\* and `*v += balance` can exceed the Balance type.

\* The values attached here: nothing, or half the range of Balance.
HalfRange == Pow2(BalanceBits - 1)
Endowments == {0, HalfRange}

\* `*v += balance` leaves the range of Balance.
add_overflows(self, caller, balance) ==
    /\ balance > 0
    /\ contains_key(self.balances, caller)
    /\ self.balances[caller] + balance >= Pow2(BalanceBits)

\* bind with an attached value the environment did not move. An addition that
\* overflows panics in a build with overflow checks and wraps in one without.
CallBindUnbacked(s, caller, tg_id, endowment, overflow_checks) ==
    IF /\ ~already_bounded(s, caller, tg_id)
       /\ add_overflows(s, caller, endowment)
       /\ overflow_checks
    THEN Outcome(s, [self |-> s, res |-> "Panic", trap |-> TRUE])
    ELSE Outcome(s, bind(s, caller, tg_id, endowment))

BindUnbacked ==
    \E caller \in AccountId, tg_id \in TelegramId :
    \E endowment \in Endowments, overflow_checks \in BOOLEAN :
        Execute(CallBindUnbacked(Self, caller, tg_id, endowment, overflow_checks))

NextUnbacked == BindUnbacked \/ Unbind \/ ForceUnbind \/ Tip \/ TipFrom

SpecUnbacked == Init /\ [][NextUnbacked]_vars

\* ---------------------------------------------------------------- properties
\* What every call the environment can make in the current state leaves behind.
AllOutcomes ==
    UNION {{CallBind(Self, w, p, d) : p \in TelegramId, d \in Deposits(Self, w)} :
           w \in AccountId}
    \cup {CallUnbind(Self, w, ok) : w \in AccountId, ok \in BOOLEAN}
    \cup UNION {{CallForceUnbind(Self, c, w, ok) : w \in AccountId, ok \in BOOLEAN} :
                c \in AccountId}
    \cup UNION {{CallTip(Self, c, p, n, ok) :
                    p \in TelegramId, n \in Amounts, ok \in BOOLEAN} : c \in AccountId}
    \cup UNION {UNION {{CallTipFrom(Self, c, f, t, n, ok) :
                           n \in Amounts, ok \in BOOLEAN} :
                       f \in TelegramId, t \in TelegramId} : c \in AccountId}

\* The ledger balance of a wallet, 0 if it has no entry.
LedgerOf(self, w) == IF w \in DOMAIN self.balances THEN self.balances[w] ELSE 0

\* C1 (bijection invariant): in every reachable state the wallet->platform map
\* and the platform->wallet map are exact inverses: telegram_id_of(w) = Some(p)
\* if and only if address_of(p) = Some(w).
C1_Bijection ==
    \A w \in AccountId, p \in TelegramId :
        (telegram_id_of(Self, w) = Some(p)) <=> (address_of(Self, p) = Some(w))

\* Two wallets are bound, one of them can rebind to the platform id left over
\* and the other can unbind.
C1_Witness ==
    \E w1 \in DOMAIN address_tg, w2 \in DOMAIN address_tg, p \in TelegramId :
        /\ w1 # w2
        /\ p \notin DOMAIN tg_address
        /\ CallBind(Self, w1, p, 0).res = "Ok"
        /\ CallUnbind(Self, w2, TRUE).res = "Ok"

\* C2 (all-or-nothing): a call that fails, whatever the message and its
\* arguments, leaves both maps, the ledger, the owner and every externally-held
\* balance as they were; a call in which the external transfer is refused fails
\* with BelowSubsistenceThreshold.
C2_AllOrNothing ==
    \A end \in AllOutcomes :
        /\ end.res # "Ok" => end.self = Self
        /\ (\E i \in 1 .. Len(end.transfers) : ~end.transfers[i].ok)
              => end.res = "BelowSubsistenceThreshold"

\* An unbind whose refund is refused: the message had already removed both map
\* entries and the ledger entry, and the call leaves the state as it was.
C2_Witness ==
    \E w \in DOMAIN balances :
        LET out == unbind(Self, w, FALSE) IN
        /\ out.res = "BelowSubsistenceThreshold"
        /\ w \in DOMAIN address_tg
        /\ w \notin DOMAIN out.self.address_tg
        /\ w \notin DOMAIN out.self.balances
        /\ Outcome(Self, out).self = Self

\* C3 (anti-spoofing): bind(p) called by w while p is bound to another wallet w2
\* fails with AlreadyBounded; p stays bound to w2, the binding of w is
\* unchanged and no ledger entry is credited.
C3_AntiSpoofing ==
    \A w \in AccountId, p \in TelegramId :
        (address_of(Self, p) # None /\ address_of(Self, p) # Some(w)) =>
            \A d \in Deposits(Self, w) :
                LET end == CallBind(Self, w, p, d) IN
                /\ end.res = "AlreadyBounded"
                /\ address_of(end.self, p) = address_of(Self, p)
                /\ telegram_id_of(end.self, w) = telegram_id_of(Self, w)
                /\ end.self.balances = balances

\* A bound wallet with funds to deposit tries to take a platform id bound to
\* another wallet.
C3_Witness ==
    \E w \in DOMAIN address_tg, p \in TelegramId :
        /\ address_of(Self, p) # None
        /\ address_of(Self, p) # Some(w)
        /\ account_balance[w] > 0
        /\ CallBind(Self, w, p, account_balance[w]).res = "AlreadyBounded"

\* C4 (owner gating): force_unbind and tip_from called by anyone but the owner
\* fail with NotAllowed and change nothing, whatever the arguments; no call
\* changes the owner.
C4_OwnerGating ==
    /\ \A c \in AccountId \ {owner}, ok \in BOOLEAN :
          /\ \A w \in AccountId :
                LET end == CallForceUnbind(Self, c, w, ok) IN
                end.res = "NotAllowed" /\ end.self = Self /\ end.transfers = <<>>
          /\ \A f \in TelegramId, t \in TelegramId, n \in Amounts :
                LET end == CallTipFrom(Self, c, f, t, n, ok) IN
                end.res = "NotAllowed" /\ end.self = Self /\ end.transfers = <<>>
    /\ \A end \in AllOutcomes : end.self.owner = owner

\* A non-owner calls tip_from with an unbound source and an amount above every
\* balance, and force_unbind for a wallet that is bound and one that is not.
C4_Witness ==
    \E c \in AccountId \ {owner}, f \in TelegramId, t \in TelegramId :
    \E w1 \in DOMAIN address_tg, w2 \in AccountId \ DOMAIN address_tg :
        /\ address_of(Self, f) = None
        /\ address_of(Self, t) # None
        /\ CallTipFrom(Self, c, f, t, MaxAmount, TRUE).res = "NotAllowed"
        /\ CallForceUnbind(Self, c, w1, TRUE).res = "NotAllowed"
        /\ CallForceUnbind(Self, c, w2, TRUE).res = "NotAllowed"

\* What C5 asks of an unbind, made in state s, of wallet w bound to p with
\* ledger balance b.
Unbound(s, end, w, p, b) ==
    /\ end.res = "Ok"
    /\ telegram_id_of(end.self, w) = None
    /\ address_of(end.self, p) = None
    /\ balance_of(end.self, p) = 0
    /\ w \notin DOMAIN end.self.balances
    /\ end.self.contract_balance = s.contract_balance - b
    /\ end.self.account_balance =
          [s.account_balance EXCEPT ![w] = s.account_balance[w] + b]

\* C5 (unbind zeroes and pays out): where w is bound to p with ledger balance
\* b > 0 and the environment accepts the transfer, unbind by w and
\* force_unbind(w) by the owner succeed, remove the binding in both maps and
\* the ledger entry, and move exactly b from the contract to w.
C5_UnbindPaysOut ==
    \A w \in DOMAIN address_tg :
        (w \in DOMAIN balances /\ balances[w] > 0) =>
            /\ Unbound(Self, CallUnbind(Self, w, TRUE), w, address_tg[w], balances[w])
            /\ Unbound(Self, CallForceUnbind(Self, owner, w, TRUE),
                       w, address_tg[w], balances[w])

\* The owner force-unbinds another wallet that holds a balance; the transfer is
\* invoked once, to that wallet.
C5_Witness ==
    \E w \in DOMAIN address_tg \ {owner} :
        /\ w \in DOMAIN balances
        /\ balances[w] > 0
        /\ owner \in DOMAIN address_tg
        /\ LET end == CallForceUnbind(Self, owner, w, TRUE) IN
           /\ end.res = "Ok"
           /\ end.transfers = <<[to |-> w, amount |-> balances[w], ok |-> TRUE]>>

\* What C6 asks of a tip of n, made in state s, from wallet a to wallet b.
Tipped(s, end, a, b, n) ==
    /\ end.res = "Ok"
    /\ balance_of(end.self, s.address_tg[a]) = LedgerOf(s, a) - n
    /\ end.self.account_balance =
          [s.account_balance EXCEPT ![b] = s.account_balance[b] + n]
    /\ end.self.contract_balance = s.contract_balance - n
    /\ end.self.address_tg = s.address_tg
    /\ end.self.tg_address = s.tg_address
    /\ \A w \in AccountId \ {a} :
          /\ LedgerOf(end.self, w) = LedgerOf(s, w)
          /\ w \in DOMAIN end.self.balances <=> w \in DOMAIN s.balances

\* C6 (tip debit and payout): for distinct bound wallets a and b and any amount
\* n not above a's ledger balance (0 without an entry), tip by a and tip_from by
\* the owner, with the transfer accepted, succeed, debit a by n, pay n from the
\* contract to b, and change no binding and no other ledger balance.
C6_TipPaysOut ==
    \A a \in DOMAIN address_tg, b \in DOMAIN address_tg, n \in Amounts :
        (a # b /\ n <= LedgerOf(Self, a)) =>
            /\ Tipped(Self, CallTip(Self, a, address_tg[b], n, TRUE), a, b, n)
            /\ Tipped(Self, CallTipFrom(Self, owner, address_tg[a], address_tg[b], n, TRUE),
                      a, b, n)

\* C6, for a source wallet that has a ledger entry: the statement holds.
C6_TipPaysOutWithEntry ==
    \A a \in DOMAIN address_tg, b \in DOMAIN address_tg, n \in Amounts :
        (a # b /\ a \in DOMAIN balances /\ n <= balances[a]) =>
            /\ Tipped(Self, CallTip(Self, a, address_tg[b], n, TRUE), a, b, n)
            /\ Tipped(Self, CallTipFrom(Self, owner, address_tg[a], address_tg[b], n, TRUE),
                      a, b, n)

\* C7 (unbound tip endpoints rejected): tip fails with NotFound when the caller
\* or the target platform id is unbound, tip_from by the owner when either
\* platform id is unbound; nothing changes and no transfer is invoked.
C7_UnboundRejected ==
    \A n \in Amounts, ok \in BOOLEAN :
        /\ \A c \in AccountId, p \in TelegramId :
              (telegram_id_of(Self, c) = None \/ address_of(Self, p) = None) =>
                  LET end == CallTip(Self, c, p, n, ok) IN
                  end.res = "NotFound" /\ end.self = Self /\ end.transfers = <<>>
        /\ \A f \in TelegramId, t \in TelegramId :
              (address_of(Self, f) = None \/ address_of(Self, t) = None) =>
                  LET end == CallTipFrom(Self, owner, f, t, n, ok) IN
                  end.res = "NotFound" /\ end.self = Self /\ end.transfers = <<>>

\* A funded wallet tips an unbound platform id, an unbound wallet tips a bound
\* one, and the owner tips from a bound to an unbound platform id.
C7_Witness ==
    \E c \in DOMAIN balances, u \in AccountId \ DOMAIN address_tg :
    \E p \in TelegramId \ DOMAIN tg_address :
        /\ balances[c] > 0
        /\ CallTip(Self, c, p, 1, TRUE).res = "NotFound"
        /\ CallTip(Self, u, address_tg[c], 1, TRUE).res = "NotFound"
        /\ CallTipFrom(Self, owner, address_tg[c], p, 1, TRUE).res = "NotFound"

\* C8 (insufficient funds rejected): for a bound source and a bound target, a
\* tip or an owner's tip_from of more than the source's ledger balance fails
\* with InsufficientFunds, invokes no transfer and changes nothing; a tip that
\* succeeds lowers the source's ledger balance by exactly the amount, so the
\* balance never underflows.
C8_InsufficientFunds ==
    \A a \in DOMAIN address_tg, b \in DOMAIN address_tg :
    \A n \in Amounts, ok \in BOOLEAN :
        LET tipped == CallTip(Self, a, address_tg[b], n, ok)
            forced == CallTipFrom(Self, owner, address_tg[a], address_tg[b], n, ok)
        IN /\ n > LedgerOf(Self, a) =>
                 /\ tipped.res = "InsufficientFunds"
                 /\ tipped.self = Self /\ tipped.transfers = <<>>
                 /\ forced.res = "InsufficientFunds"
                 /\ forced.self = Self /\ forced.transfers = <<>>
           /\ tipped.res = "Ok" =>
                 LedgerOf(tipped.self, a) + n = LedgerOf(Self, a)
           /\ forced.res = "Ok" =>
                 LedgerOf(forced.self, a) + n = LedgerOf(Self, a)

\* A wallet with a non-empty balance tips more than it has.
C8_Witness ==
    \E a \in DOMAIN balances, b \in DOMAIN address_tg, n \in Amounts :
        /\ a # b
        /\ balances[a] > 0
        /\ n > balances[a]
        /\ CallTip(Self, a, address_tg[b], n, TRUE).res = "InsufficientFunds"

\* C9 (rebind replaces): where w is bound to p1 and p2 is unbound, bind(p2) by
\* w succeeds; afterwards p1 is unbound, p2 and w are bound to each other and
\* to nothing else, and every other binding is unchanged.
C9_RebindReplaces ==
    \A w \in DOMAIN address_tg, p2 \in TelegramId \ DOMAIN tg_address :
    \A d \in Deposits(Self, w) :
        LET p1 == address_tg[w]
            end == CallBind(Self, w, p2, d)
        IN /\ end.res = "Ok"
           /\ address_of(end.self, p1) = None
           /\ address_of(end.self, p2) = Some(w)
           /\ telegram_id_of(end.self, w) = Some(p2)
           /\ {p \in TelegramId : address_of(end.self, p) = Some(w)} = {p2}
           /\ \A w2 \in AccountId \ {w} :
                 telegram_id_of(end.self, w2) = telegram_id_of(Self, w2)
           /\ \A p \in TelegramId \ {p1, p2} :
                 address_of(end.self, p) = address_of(Self, p)

\* A bound wallet rebinds to the free platform id while another wallet is bound.
C9_Witness ==
    \E w \in DOMAIN address_tg, w2 \in DOMAIN address_tg :
    \E p2 \in TelegramId \ DOMAIN tg_address :
        /\ w # w2
        /\ LET end == CallBind(Self, w, p2, 0) IN
           /\ end.res = "Ok"
           /\ address_tg[w] \notin DOMAIN end.self.tg_address
           /\ telegram_id_of(end.self, w2) = Some(address_tg[w2])

Registry(s) == <<s.address_tg, s.tg_address, s.balances>>

\* C11 (round trip), as claimed: from any reachable state, if bind(p) by w with
\* no deposit succeeds, the unbind by w that follows succeeds and leaves both
\* maps and the ledger as they were before the bind.
C11_RoundTrip ==
    \A w \in AccountId, p \in TelegramId, ok \in BOOLEAN :
        LET bound == CallBind(Self, w, p, 0)
            back == CallUnbind(bound.self, w, ok)
        IN bound.res = "Ok" =>
              (back.res = "Ok" /\ Registry(back.self) = Registry(Self))

\* C11, amended: the same for a wallet w that has no binding before the bind;
\* the unbind then invokes no transfer and the whole state is as before.
C11_RoundTripUnbound ==
    \A w \in AccountId \ DOMAIN address_tg, p \in TelegramId, ok \in BOOLEAN :
        LET bound == CallBind(Self, w, p, 0)
            back == CallUnbind(bound.self, w, ok)
        IN bound.res = "Ok" =>
              /\ back.res = "Ok"
              /\ back.transfers = <<>>
              /\ Registry(back.self) = Registry(Self)
              /\ back.self = Self

\* An unbound wallet binds a free platform id and unbinds again, while another
\* wallet is bound and holds a balance.
C11_Witness ==
    \E w \in AccountId \ DOMAIN address_tg, p \in TelegramId \ DOMAIN tg_address :
    \E w2 \in DOMAIN balances :
        /\ balances[w2] > 0
        /\ LET bound == CallBind(Self, w, p, 0) IN
           /\ bound.res = "Ok"
           /\ telegram_id_of(bound.self, w) = Some(p)
           /\ CallUnbind(bound.self, w, FALSE).res = "Ok"

\* C12 (AlreadyBounded only for another wallet's platform id), as claimed:
\* bind(p) by w fails with AlreadyBounded if and only if p is bound to a wallet
\* other than w.
C12_AlreadyBoundedIff ==
    \A w \in AccountId, p \in TelegramId :
    \A d \in Deposits(Self, w) :
        (CallBind(Self, w, p, d).res = "AlreadyBounded")
            <=> (address_of(Self, p) # None /\ address_of(Self, p) # Some(w))

\* C13 (unbind requires a binding): unbind by a wallet without a binding and
\* the owner's force_unbind of such a wallet fail with NotFound, invoke no
\* transfer and change nothing.
C13_UnbindNotFound ==
    \A w \in AccountId \ DOMAIN address_tg, ok \in BOOLEAN :
        LET own == CallUnbind(Self, w, ok)
            forced == CallForceUnbind(Self, owner, w, ok)
        IN /\ own.res = "NotFound" /\ own.transfers = <<>> /\ own.self = Self
           /\ forced.res = "NotFound" /\ forced.transfers = <<>> /\ forced.self = Self

\* A wallet without a binding unbinds, and is force-unbound by the owner, while
\* another wallet is bound and holds a balance.
C13_Witness ==
    \E w \in AccountId \ (DOMAIN address_tg \cup {owner}), w2 \in DOMAIN balances :
        /\ balances[w2] > 0
        /\ CallUnbind(Self, w, TRUE).res = "NotFound"
        /\ CallForceUnbind(Self, owner, w, TRUE).res = "NotFound"

\* What C14 asks of a call that tips n to the wallet `target`.
RecipientLedgerKept(s, end, target, n) ==
    end.res = "Ok" =>
        /\ LedgerOf(end.self, target) = LedgerOf(s, target)
        /\ end.self.account_balance[target] = s.account_balance[target] + n

\* C14 (recipient's ledger unaffected), as claimed: after every successful tip
\* and tip_from, for every source and target platform id (the source's own
\* included), the target wallet's ledger balance is what it was and its
\* externally-held balance has grown by the amount.
C14_RecipientLedger ==
    \A n \in Amounts, ok \in BOOLEAN, t \in DOMAIN tg_address :
        /\ \A c \in AccountId :
              RecipientLedgerKept(Self, CallTip(Self, c, t, n, ok), tg_address[t], n)
        /\ \A f \in TelegramId :
              RecipientLedgerKept(Self, CallTipFrom(Self, owner, f, t, n, ok),
                                  tg_address[t], n)

\* C14, amended: the same for a target platform id bound to a wallet other
\* than the source wallet; the target's ledger entry, if any, is untouched.
C14_RecipientLedgerOther ==
    \A n \in Amounts, ok \in BOOLEAN, t \in DOMAIN tg_address :
        /\ \A c \in AccountId \ {tg_address[t]} :
              LET end == CallTip(Self, c, t, n, ok) IN
              /\ RecipientLedgerKept(Self, end, tg_address[t], n)
              /\ get(end.self.balances, tg_address[t]) = get(balances, tg_address[t])
        /\ \A f \in DOMAIN tg_address \ {t} :
              LET end == CallTipFrom(Self, owner, f, t, n, ok) IN
              /\ RecipientLedgerKept(Self, end, tg_address[t], n)
              /\ get(end.self.balances, tg_address[t]) = get(balances, tg_address[t])

\* A wallet tips a positive amount to another wallet that holds a ledger
\* balance of its own.
C14_Witness ==
    \E a \in DOMAIN balances, b \in DOMAIN balances :
        /\ a # b
        /\ balances[a] > 0
        /\ balances[b] > 0
        /\ LET end == CallTip(Self, a, address_tg[b], 1, TRUE) IN
           /\ end.res = "Ok"
           /\ end.self.balances[b] = balances[b]
           /\ end.self.account_balance[b] = account_balance[b] + 1

\* What C15 asks of an unbind of wallet w.
PositivePayout(s, end, w) ==
    /\ \A i \in 1 .. Len(end.transfers) : end.transfers[i].amount > 0
    /\ LedgerOf(s, w) = 0 =>
          (end.transfers = <<>> /\ end.res # "BelowSubsistenceThreshold")

\* C15 (payout only for a positive amount): unbind and force_unbind invoke the
\* transfer only for an amount > 0; where the wallet's ledger balance is 0 (no
\* entry, or an entry of 0) no transfer is invoked and the unbind does not fail
\* with BelowSubsistenceThreshold.
C15_PositivePayout ==
    \A w \in AccountId, ok \in BOOLEAN :
        /\ PositivePayout(Self, CallUnbind(Self, w, ok), w)
        /\ PositivePayout(Self, CallForceUnbind(Self, owner, w, ok), w)

\* C16 (no intra-operation window): with bind and unbind followed write by
\* write, the two maps are exact inverses after every single write: every
\* entry p -> w of tg_address has its entry w -> p in address_tg and the other
\* way round.
C16_NoWindow ==
    /\ \A p \in DOMAIN tg_address :
          tg_address[p] \in DOMAIN address_tg /\ address_tg[tg_address[p]] = p
    /\ \A w \in DOMAIN address_tg :
          address_tg[w] \in DOMAIN tg_address /\ tg_address[address_tg[w]] = w

\* C16, between messages: the maps are exact inverses whenever no message is
\* in progress.
C16_BetweenMessages == pending.pc = "idle" => C16_NoWindow

\* C16: a rebind in progress in which two platform ids map to the caller.
C16_TwoIdsForOneWallet ==
    /\ pending.pc \in {"insert_address", "free_old"}
    /\ Cardinality({p \in DOMAIN tg_address : tg_address[p] = pending.caller}) = 2

\* The state that differs from s only in that wallet w has no ledger entry.
WithoutEntry(s, w) == [s EXCEPT !.balances = take(@, w)]

\* Two outcomes of the same call, made in a state where w's entry is 0 and in
\* the state where it is absent, cannot be told apart: same result, same
\* transfer calls, and states that are equal or differ only in w's 0 entry.
SameOutcome(a, b, w) ==
    /\ a.res = b.res
    /\ a.transfers = b.transfers
    /\ \/ a.self = b.self
       \/ /\ get(a.self.balances, w) = Some(0)
          /\ b.self = WithoutEntry(a.self, w)

\* C17 (absence is zero): whenever a bound wallet w has a ledger entry of 0,
\* every query and every message gives the same outcome in this state and in
\* the state where w has no ledger entry.
C17_AbsenceIsZero ==
    \A w \in DOMAIN address_tg :
        get(balances, w) = Some(0) =>
            LET t == WithoutEntry(Self, w) IN
            /\ \A p \in TelegramId : balance_of(Self, p) = balance_of(t, p)
            /\ \A c \in AccountId, p \in TelegramId :
                   \A d \in Deposits(Self, c) :
                       SameOutcome(CallBind(Self, c, p, d), CallBind(t, c, p, d), w)
            /\ \A c \in AccountId, ok \in BOOLEAN :
                   SameOutcome(CallUnbind(Self, c, ok), CallUnbind(t, c, ok), w)
            /\ \A c \in AccountId, a \in AccountId, ok \in BOOLEAN :
                   SameOutcome(CallForceUnbind(Self, c, a, ok),
                               CallForceUnbind(t, c, a, ok), w)
            /\ \A c \in AccountId, p \in TelegramId, n \in Amounts, ok \in BOOLEAN :
                   SameOutcome(CallTip(Self, c, p, n, ok), CallTip(t, c, p, n, ok), w)
            /\ \A c \in AccountId, f \in TelegramId, p \in TelegramId :
                   \A n \in Amounts, ok \in BOOLEAN :
                       SameOutcome(CallTipFrom(Self, c, f, p, n, ok),
                                   CallTipFrom(t, c, f, p, n, ok), w)

\* C17: a pair of states of the kind the claim compares. eve, bound to 42, has
\* a ledger entry of 0 (after a deposit and a tip of that amount to herself)
\* or no entry (after a bind without deposit); everything else is equal.
C17_TwinShape(s) ==
    /\ s.address_tg = [w \in {"eve"} |-> 42]
    /\ s.tg_address = [p \in {42} |-> "eve"]
    /\ s.contract_balance = Endowment
    /\ s.account_balance = [w \in AccountId |-> IF w = "eve" THEN TotalSupply ELSE 0]
C17_WithZeroEntry == C17_TwinShape(Self) /\ get(balances, "eve") = Some(0)
C17_WithoutEntry == C17_TwinShape(Self) /\ get(balances, "eve") = None

\* C18 (no silent wrap-around): a bind whose deposit d added to the caller's
\* ledger balance b exceeds the maximum of Balance is rejected and leaves the
\* ledger unchanged, whatever the build.
C18_NoWrap ==
    \A w \in AccountId, p \in TelegramId, d \in Endowments, checks \in BOOLEAN :
        LET end == CallBindUnbacked(Self, w, p, d, checks) IN
        LedgerOf(Self, w) + d >= Pow2(BalanceBits) =>
            end.res # "Ok" /\ end.self.balances = balances

\* C18, debit: a successful tip or tip_from of amount n leaves the source
\* with exactly its balance minus n, which is not negative.
C18_NoUnderflow ==
    /\ \A c \in AccountId, p \in TelegramId, n \in Amounts, ok \in BOOLEAN :
           LET end == CallTip(Self, c, p, n, ok) IN
           end.res = "Ok" =>
               /\ LedgerOf(Self, c) >= n
               /\ c \in DOMAIN end.self.balances
               /\ end.self.balances[c] = LedgerOf(Self, c) - n
    /\ \A c \in AccountId, f \in TelegramId, p \in TelegramId :
       \A n \in Amounts, ok \in BOOLEAN :
           LET end == CallTipFrom(Self, c, f, p, n, ok)
               src == tg_address[f] IN
           end.res = "Ok" =>
               /\ LedgerOf(Self, src) >= n
               /\ src \in DOMAIN end.self.balances
               /\ end.self.balances[src] = LedgerOf(Self, src) - n

\* C18: in the chain environment, where a deposit is money the caller held,
\* no ledger balance plus deposit exceeds the maximum of Balance.
C18_BackedDepositsFit ==
    \A w \in AccountId : \A d \in Deposits(Self, w) :
        LedgerOf(Self, w) + d < Pow2(BalanceBits)

\* The sum of f[x] over the keys x in S of the map f.
RECURSIVE SumOver(_, _)
SumOver(f, S) ==
    IF S = {} THEN 0
    ELSE LET x == CHOOSE y \in S : TRUE IN f[x] + SumOver(f, S \ {x})

\* The sum of all ledger balances of the state s.
LedgerSum(s) == SumOver(s.balances, DOMAIN s.balances)

\* What the transfers of a call paid out: the amounts the environment moved.
RECURSIVE PaidOut(_)
PaidOut(transfers) ==
    IF transfers = <<>> THEN 0
    ELSE (IF Head(transfers).ok THEN Head(transfers).amount ELSE 0)
         + PaidOut(Tail(transfers))

\* The ledger sum moves from s to end by exactly `deposit` less what end paid
\* out if the call succeeded, and not at all if it failed.
Conserved(s, end, deposit) ==
    IF end.res = "Ok"
    THEN LedgerSum(end.self) = LedgerSum(s) + deposit - PaidOut(end.transfers)
    ELSE LedgerSum(end.self) = LedgerSum(s)

\* C19 (custody conservation): the ledger sum starts at 0 with the contract
\* holding its endowment, every successful bind adds its deposit to it, every
\* successful unbind, force_unbind, tip and tip_from takes what it paid out
\* from it, and failed calls leave it alone; so the ledger sum is the deposits
\* less the payouts, which is what the contract holds beyond its endowment,
\* and the contract can pay every recorded balance.
C19_CustodyConservation ==
    /\ LedgerSum(Self) = contract_balance - Endowment
    /\ contract_balance >= LedgerSum(Self)
    /\ \A w \in DOMAIN balances : contract_balance >= balances[w]
    /\ \A w \in AccountId, p \in TelegramId : \A d \in Deposits(Self, w) :
           Conserved(Self, CallBind(Self, w, p, d), d)
    /\ \A w \in AccountId, ok \in BOOLEAN :
           Conserved(Self, CallUnbind(Self, w, ok), 0)
    /\ \A c \in AccountId, w \in AccountId, ok \in BOOLEAN :
           Conserved(Self, CallForceUnbind(Self, c, w, ok), 0)
    /\ \A c \in AccountId, p \in TelegramId, n \in Amounts, ok \in BOOLEAN :
           Conserved(Self, CallTip(Self, c, p, n, ok), 0)
    /\ \A c \in AccountId, f \in TelegramId, p \in TelegramId :
       \A n \in Amounts, ok \in BOOLEAN :
           Conserved(Self, CallTipFrom(Self, c, f, p, n, ok), 0)

\* C19: two wallets have deposited, one has since tipped its whole balance
\* away (its entry is 0) and the other still has a positive balance.
C19_Witness ==
    \E w \in DOMAIN balances, v \in DOMAIN balances :
        /\ balances[w] = 0
        /\ balances[v] > 0
        /\ contract_balance = Endowment + balances[v]

\* The sum of balance_of(p) over the bound platform ids p.
RECURSIVE SumBalanceOf(_, _)
SumBalanceOf(s, P) ==
    IF P = {} THEN 0
    ELSE LET p == CHOOSE q \in P : TRUE IN
         balance_of(s, p) + SumBalanceOf(s, P \ {p})

\* C20 (no orphaned funds): every wallet with a ledger entry has a binding,
\* the balances seen through balance_of over the bound platform ids add up to
\* the ledger sum, and every ledger entry is refunded in full by its wallet's
\* unbind when the environment accepts the transfer.
C20_NoOrphanedFunds ==
    /\ DOMAIN balances \subseteq DOMAIN address_tg
    /\ SumBalanceOf(Self, DOMAIN tg_address) = LedgerSum(Self)
    /\ \A w \in DOMAIN balances :
           LET end == CallUnbind(Self, w, TRUE) IN
           /\ end.res = "Ok"
           /\ end.transfers = <<[to |-> w, amount |-> balances[w], ok |-> TRUE]>>
           /\ w \notin DOMAIN end.self.balances

\* C20: a wallet holds a positive ledger balance under its binding while
\* another wallet has neither binding nor ledger entry and holds the whole
\* rest of the supply.
C20_Witness ==
    \E w \in DOMAIN balances, v \in AccountId \ DOMAIN address_tg :
        /\ balances[w] > 0
        /\ account_balance[v] = TotalSupply - balances[w]
        /\ account_balance[v] > 0

\* The platform ids that map to wallet w in the state s.
IdsOf(s, w) == {p \in DOMAIN s.tg_address : s.tg_address[p] = w}

\* The call that led from s to end left wallet w its binding, in both maps,
\* and did not remove or lower its ledger balance.
Untouched(s, end, w) ==
    /\ get(end.self.address_tg, w) = get(s.address_tg, w)
    /\ IdsOf(end.self, w) = IdsOf(s, w)
    /\ contains_key(s.balances, w) => contains_key(end.self.balances, w)
    /\ LedgerOf(end.self, w) >= LedgerOf(s, w)

\* C21 (only the holder or the owner): bind, unbind and tip, whoever calls
\* them and with whatever arguments, leave every wallet other than the caller
\* its binding and its ledger balance; force_unbind and tip_from called by a
\* wallet that is not the owner leave them to every wallet.
C21_HolderOrOwner ==
    /\ \A c \in AccountId : \A w \in AccountId \ {c} :
          /\ \A p \in TelegramId : \A d \in Deposits(Self, c) :
                 Untouched(Self, CallBind(Self, c, p, d), w)
          /\ \A ok \in BOOLEAN : Untouched(Self, CallUnbind(Self, c, ok), w)
          /\ \A p \in TelegramId, n \in Amounts, ok \in BOOLEAN :
                 Untouched(Self, CallTip(Self, c, p, n, ok), w)
    /\ \A c \in AccountId \ {owner}, w \in AccountId :
          /\ \A a \in AccountId, ok \in BOOLEAN :
                 Untouched(Self, CallForceUnbind(Self, c, a, ok), w)
          /\ \A f \in TelegramId, p \in TelegramId :
             \A n \in Amounts, ok \in BOOLEAN :
                 Untouched(Self, CallTipFrom(Self, c, f, p, n, ok), w)

\* C21: wallet w is bound and holds a positive ledger balance, and a third
\* wallet c, bound and not the owner, makes calls that name w: its tip to w's
\* platform id succeeds, its bind of w's platform id, its force_unbind of w
\* and its tip_from out of w's balance are rejected.
C21_Witness ==
    \E w \in DOMAIN address_tg, c \in DOMAIN address_tg \ {owner} :
        /\ c # w
        /\ LedgerOf(Self, w) > 0
        /\ LedgerOf(Self, c) > 0
        /\ CallTip(Self, c, address_tg[w], 1, TRUE).res = "Ok"
        /\ CallBind(Self, c, address_tg[w], 0).res = "AlreadyBounded"
        /\ CallForceUnbind(Self, c, w, TRUE).res = "NotAllowed"
        /\ CallTipFrom(Self, c, address_tg[w], address_tg[c], 1, TRUE).res
               = "NotAllowed"
====
